---- MODULE Spec2Model ----
(***************************************************************************)
(* The scheduled-trigger subsystem of the desktop shell (lib.rs): the      *)
(* schedule settings held in AppState behind a Mutex, the                  *)
(* update_schedule_settings command, and the background scheduler thread   *)
(* that wakes every 60 seconds, evaluates the settings against the local   *)
(* wall clock and emits a "schedule-trigger" event.                        *)
(*                                                                         *)
(* Text is modelled as a sequence of one-character strings, so that        *)
(* split(':'), parse::<u32>() and format!("{}:{:02}") are computed as the  *)
(* code computes them.  Wall-clock time is counted in whole minutes since  *)
(* a Sunday 00:00 local time.                                              *)
(***************************************************************************)
EXTENDS Integers, Sequences, FiniteSets, TLC

VARIABLES
    settings,        \* AppState.schedule_settings: the value inside the Mutex
    poisoned,        \* the Mutex's poison flag
    holder,          \* which thread holds the Mutex guard: "none", "poller" or a caller
    upc,             \* per caller: position inside update_schedule_settings
    uarg,            \* per caller: the `settings` argument of its current/last call
    ures,            \* per caller: the value its last call returned
    committed,       \* the argument of the last call that returned Ok (history)
    ppc,             \* the scheduler thread's position inside its loop
    wall,            \* the local wall clock, in minutes
    now,             \* the scheduler's captured chrono::Local::now(), in minutes
    should_trigger,  \* the scheduler's local `should_trigger`
    snap,            \* the settings the guard exposed to this cycle's evaluation (history)
    payload,         \* the ScheduleTriggerPayload being emitted
    emit_result,     \* what app_handle.emit returned in this cycle
    fired,           \* captured minutes for which an event has been emitted (history)
    dupFired,        \* an event was emitted for a minute that already had one (history)
    clockBack,       \* the wall clock has been set back at some point (history)
    is_quitting,     \* AppState.is_quitting
    window,          \* the main window: "shown", "hidden" or "closed"
    wpc,             \* the window-event handler: "idle" or "close_requested"
    last_close       \* what became of the last close request: "none", "prevented", "allowed"

vars == <<settings, poisoned, holder, upc, uarg, ures, committed,
          ppc, wall, now, should_trigger, snap, payload, emit_result,
          fired, dupFired, clockBack, is_quitting, window, wpc, last_close>>

-----------------------------------------------------------------------------
(* Text *)

DigitChars == <<"0", "1", "2", "3", "4", "5", "6", "7", "8", "9">>

IsDigit(c) == \E i \in 1..10 : DigitChars[i] = c

DigitVal(c) == (CHOOSE i \in 1..10 : DigitChars[i] = c) - 1

\* str::split(':'): every ':' separates two parts; a text without ':' is one part
RECURSIVE Split(_)
Split(s) ==
    IF \A i \in 1..Len(s) : s[i] # ":"
    THEN <<s>>
    ELSE LET i == CHOOSE j \in 1..Len(s) :
                      s[j] = ":" /\ \A k \in 1..(j - 1) : s[k] # ":"
         IN  <<SubSeq(s, 1, i - 1)>> \o Split(SubSeq(s, i + 1, Len(s)))

RECURSIVE DecimalValue(_)
DecimalValue(ds) ==
    IF ds = <<>> THEN 0
    ELSE DecimalValue(SubSeq(ds, 1, Len(ds) - 1)) * 10 + DigitVal(ds[Len(ds)])

\* the digits of u32::MAX = 4294967295, the largest value parse::<u32>() accepts
U32MaxDigits == <<"4", "2", "9", "4", "9", "6", "7", "2", "9", "5">>

RECURSIVE Significant(_)
Significant(ds) ==
    IF Len(ds) > 1 /\ ds[1] = "0" THEN Significant(Tail(ds)) ELSE ds

\* digit strings of equal length, compared as numbers
RECURSIVE DigitsLeq(_, _)
DigitsLeq(a, b) ==
    IF a = <<>> THEN TRUE
    ELSE IF DigitVal(a[1]) # DigitVal(b[1]) THEN DigitVal(a[1]) < DigitVal(b[1])
    ELSE DigitsLeq(Tail(a), Tail(b))

\* the accumulated value exceeds u32::MAX (IntErrorKind::PosOverflow)
Overflows(ds) ==
    LET sg == Significant(ds)
    IN  \/ Len(sg) > Len(U32MaxDigits)
        \/ Len(sg) = Len(U32MaxDigits) /\ ~DigitsLeq(sg, U32MaxDigits)

ParseErr == [ok |-> FALSE, val |-> 0]

\* mutant: a part that does not parse counts as 0 (parse().unwrap_or(0))
ParseU32OrZero(p) ==
    IF p = <<>> THEN [ok |-> TRUE, val |-> 0]
    ELSE LET ds == IF p[1] = "+" THEN Tail(p) ELSE p
         IN  IF ds = <<>> \/ (\E i \in 1..Len(ds) : ~IsDigit(ds[i])) \/ Overflows(ds)
             THEN [ok |-> TRUE, val |-> 0]
             ELSE [ok |-> TRUE, val |-> DecimalValue(Significant(ds))]

\* str::parse::<u32>(): an optional leading '+', then one or more decimal
\* digits whose value fits 32 bits; anything else is Err
ParseU32(p) ==
    IF p = <<>> THEN ParseErr
    ELSE LET ds == IF p[1] = "+" THEN Tail(p) ELSE p
         IN  IF ds = <<>> \/ \E i \in 1..Len(ds) : ~IsDigit(ds[i])
             THEN ParseErr
             ELSE IF Overflows(ds)
                  THEN ParseErr
                  ELSE [ok |-> TRUE, val |-> DecimalValue(Significant(ds))]

\* format!("{}", n)
RECURSIVE Display(_)
Display(n) ==
    IF n < 10 THEN <<DigitChars[n + 1]>>
    ELSE Display(n \div 10) \o <<DigitChars[(n % 10) + 1]>>

\* format!("{:02}", n)
Display02(n) == IF n < 10 THEN <<"0">> \o Display(n) ELSE Display(n)

\* format!("{}:{:02}", current_hour, current_minute)
FormatTime(h, m) == Display(h) \o <<":">> \o Display02(m)

-----------------------------------------------------------------------------
(* The local wall clock, in minutes since a Sunday 00:00 *)

At(d, h, m) == (d * 24 + h) * 60 + m

current_hour(t) == (t \div 60) % 24

current_minute(t) == t % 60

\* now.weekday().num_days_from_sunday()
current_day(t) == (t \div 1440) % 7

\* Duration::from_secs(60)
SleepSecs == 60

\* mutant: the sleep is shorter than a minute, so the next capture may fall
\* into the same minute
AfterShortSleep(prev, t) == t >= prev

\* thread::sleep returns after at least SleepSecs; with a wall clock that only
\* moves forward the next captured minute is later by at least SleepSecs / 60
AfterSleep(prev, t) == t >= prev + (SleepSecs \div 60)

-----------------------------------------------------------------------------
(* ScheduleSettings *)

\* mutant: the schedule is enabled from the start
DefaultSettingsEnabled ==
    [enabled |-> TRUE,
     time    |-> <<"1", "8", ":", "0", "0">>,
     days    |-> <<1, 2, 3, 4, 5>>]

DefaultSettings ==
    [enabled |-> FALSE,
     time    |-> <<"1", "8", ":", "0", "0">>,
     days    |-> <<1, 2, 3, 4, 5>>]

\* Vec::contains
Contains(v, x) == \E i \in 1..Len(v) : v[i] = x

\* what the text of `time` parses to
ScheduledTime(s) ==
    LET parts == Split(s.time)
    IN  IF Len(parts) = 2
        THEN [ok     |-> ParseU32(parts[1]).ok /\ ParseU32(parts[2]).ok,
              hour   |-> ParseU32(parts[1]).val,
              minute |-> ParseU32(parts[2]).val]
        ELSE [ok |-> FALSE, hour |-> 0, minute |-> 0]

\* mutant: the minute is not compared
ShouldTriggerHourOnly(s, t) ==
    /\ s.enabled
    /\ Contains(s.days, current_day(t))
    /\ ScheduledTime(s).ok
    /\ current_hour(t) = ScheduledTime(s).hour

\* mutant: the enabled flag is not looked at
ShouldTriggerIgnoresEnabled(s, t) ==
    /\ Contains(s.days, current_day(t))
    /\ ScheduledTime(s).ok
    /\ current_hour(t) = ScheduledTime(s).hour
    /\ current_minute(t) = ScheduledTime(s).minute

\* mutant: the days are not looked at
ShouldTriggerIgnoresDays(s, t) ==
    /\ s.enabled
    /\ ScheduledTime(s).ok
    /\ current_hour(t) = ScheduledTime(s).hour
    /\ current_minute(t) = ScheduledTime(s).minute

\* mutant: an hour above 23 or a minute above 59 is carried over (25:00 is
\* 01:00, 18:60 is 19:00)
ShouldTriggerCarriesOver(s, t) ==
    /\ s.enabled
    /\ Contains(s.days, current_day(t))
    /\ ScheduledTime(s).ok
    /\ LET mins == ScheduledTime(s).hour * 60 + ScheduledTime(s).minute
       IN  /\ (mins \div 60) % 24 = current_hour(t)
           /\ mins % 60 = current_minute(t)

\* the value of `should_trigger` for the settings behind the guard
ShouldTrigger(s, t) ==
    IF ~s.enabled THEN FALSE
    ELSE IF ~Contains(s.days, current_day(t)) THEN FALSE
    ELSE LET parts == Split(s.time)
         IN  IF Len(parts) = 2
             THEN LET scheduled_hour   == ParseU32(parts[1])
                      scheduled_minute == ParseU32(parts[2])
                  IN  IF scheduled_hour.ok /\ scheduled_minute.ok
                      THEN /\ current_hour(t) = scheduled_hour.val
                           /\ current_minute(t) = scheduled_minute.val
                      ELSE FALSE
             ELSE FALSE

\* ScheduleTriggerPayload { timestamp, date, time }
Payload(t) ==
    [timestamp |-> t * 60000,
     date      |-> t \div 1440,
     time      |-> FormatTime(current_hour(t), current_minute(t))]

-----------------------------------------------------------------------------
(* State *)

NoTime == 0 - 1

\* an absent value is the empty sequence, a present one a one-element sequence
None == <<>>

Some(x) == <<x>>

storeVars == <<settings, poisoned, holder>>

callerVars == <<upc, uarg, ures, committed>>

pollerVars == <<ppc, now, should_trigger, snap, payload, emit_result>>

historyVars == <<fired, dupFired, clockBack>>

windowVars == <<is_quitting, window, wpc, last_close>>

\* run(): AppState { schedule_settings: Mutex::new(ScheduleSettings::default()) },
\* no command in progress, the scheduler thread spawned and about to sleep
InitWith(callers, s) ==
    /\ settings = s
    /\ poisoned = FALSE
    /\ holder = "none"
    /\ upc = [c \in callers |-> "idle"]
    /\ uarg = [c \in callers |-> None]
    /\ ures = [c \in callers |-> "none"]
    /\ committed = s
    /\ ppc = "sleep"
    /\ wall = 0
    /\ now = NoTime
    /\ should_trigger = FALSE
    /\ snap = None
    /\ payload = None
    /\ emit_result = "none"
    /\ fired = {}
    /\ dupFired = FALSE
    /\ clockBack = FALSE
    /\ is_quitting = FALSE
    /\ window = "shown"
    /\ wpc = "idle"
    /\ last_close = "none"

\* mutant: no mutual exclusion, lock() never waits
LockAlwaysAvailable == TRUE

\* Mutex::lock() returns once no other thread holds the guard
LockAvailable == holder = "none"

-----------------------------------------------------------------------------
(* update_schedule_settings, one instance per calling thread *)

\* the command is invoked with `settings` = s; it logs and reaches lock()
UpdateCall(c, s) ==
    /\ upc[c] = "idle"
    /\ upc' = [upc EXCEPT ![c] = "lock"]
    /\ uarg' = [uarg EXCEPT ![c] = Some(s)]
    /\ ures' = [ures EXCEPT ![c] = "none"]
    /\ UNCHANGED <<storeVars, committed, pollerVars, wall, historyVars, windowVars>>

\* mutant: the command validates its input and returns Err for a time that
\* does not parse or a day outside 0..6
UpdateLockRejectsInvalid(c) ==
    /\ upc[c] = "lock"
    /\ LockAvailable
    /\ IF \/ poisoned
          \/ ~ScheduledTime(uarg[c][1]).ok
          \/ \E i \in 1..Len(uarg[c][1].days) : uarg[c][1].days[i] > 6
       THEN /\ upc' = [upc EXCEPT ![c] = "idle"]
            /\ ures' = [ures EXCEPT ![c] = "err"]
            /\ UNCHANGED holder
       ELSE /\ upc' = [upc EXCEPT ![c] = "store_enabled"]
            /\ holder' = c
            /\ UNCHANGED ures
    /\ UNCHANGED <<settings, poisoned, uarg, committed, pollerVars, wall, historyVars,
                   windowVars>>

\* mutant: the command stores without waiting for the guard
UpdateLockNoWait(c) ==
    /\ upc[c] = "lock"
    /\ IF poisoned
       THEN /\ upc' = [upc EXCEPT ![c] = "idle"]
            /\ ures' = [ures EXCEPT ![c] = "err"]
            /\ UNCHANGED holder
       ELSE /\ upc' = [upc EXCEPT ![c] = "store_enabled"]
            /\ holder' = c
            /\ UNCHANGED ures
    /\ UNCHANGED <<settings, poisoned, uarg, committed, pollerVars, wall, historyVars,
                   windowVars>>

\* state.schedule_settings.lock(): Ok(guard), or Err when the Mutex is
\* poisoned, which returns Err(String) and leaves the value alone
UpdateLock(c) ==
    /\ upc[c] = "lock"
    /\ LockAvailable
    /\ IF poisoned
       THEN /\ upc' = [upc EXCEPT ![c] = "idle"]
            /\ ures' = [ures EXCEPT ![c] = "err"]
            /\ UNCHANGED holder
       ELSE /\ upc' = [upc EXCEPT ![c] = "store_enabled"]
            /\ holder' = c
            /\ UNCHANGED ures
    /\ UNCHANGED <<settings, poisoned, uarg, committed, pollerVars, wall, historyVars,
                   windowVars>>

\* *current = settings: the struct is stored field by field through the guard
UpdateStoreEnabled(c) ==
    /\ upc[c] = "store_enabled"
    /\ settings' = [settings EXCEPT !.enabled = uarg[c][1].enabled]
    /\ upc' = [upc EXCEPT ![c] = "store_time"]
    /\ UNCHANGED <<poisoned, holder, uarg, ures, committed, pollerVars, wall, historyVars,
                   windowVars>>

UpdateStoreTime(c) ==
    /\ upc[c] = "store_time"
    /\ settings' = [settings EXCEPT !.time = uarg[c][1].time]
    /\ upc' = [upc EXCEPT ![c] = "store_days"]
    /\ UNCHANGED <<poisoned, holder, uarg, ures, committed, pollerVars, wall, historyVars,
                   windowVars>>

\* mutant: the days of the argument are not stored
UpdateStoreDaysDropped(c) ==
    /\ upc[c] = "store_days"
    /\ holder' = "none"
    /\ upc' = [upc EXCEPT ![c] = "idle"]
    /\ ures' = [ures EXCEPT ![c] = "ok"]
    /\ committed' = uarg[c][1]
    /\ UNCHANGED <<settings, poisoned, uarg, pollerVars, wall, historyVars, windowVars>>

\* the last field is stored, the guard is dropped and the command returns Ok(())
UpdateStoreDays(c) ==
    /\ upc[c] = "store_days"
    /\ settings' = [settings EXCEPT !.days = uarg[c][1].days]
    /\ holder' = "none"
    /\ upc' = [upc EXCEPT ![c] = "idle"]
    /\ ures' = [ures EXCEPT ![c] = "ok"]
    /\ committed' = uarg[c][1]
    /\ UNCHANGED <<poisoned, uarg, pollerVars, wall, historyVars, windowVars>>

-----------------------------------------------------------------------------
(* start_background_scheduler: the loop of the spawned thread *)

\* thread::sleep(60 s) returns and chrono::Local::now() is captured
PollerWake(instants) ==
    /\ ppc = "sleep"
    /\ \E t \in instants :
        /\ AfterSleep(wall, t)
        /\ wall' = t
        /\ now' = t
    /\ ppc' = "lock"
    /\ UNCHANGED <<storeVars, callerVars, should_trigger, snap, payload,
                   emit_result, historyVars, windowVars>>

\* mutant: a poisoned Mutex is read all the same (PoisonError::into_inner)
PollerLockIgnoresPoison ==
    /\ ppc = "lock"
    /\ LockAvailable
    /\ holder' = "poller"
    /\ ppc' = "eval"
    /\ UNCHANGED <<settings, poisoned, callerVars, wall, now, should_trigger, snap,
                   payload, emit_result, historyVars, windowVars>>

\* state.schedule_settings.lock(): Ok(settings) enters the evaluation,
\* Err(_) => false
PollerLock ==
    /\ ppc = "lock"
    /\ LockAvailable
    /\ IF poisoned
       THEN /\ should_trigger' = FALSE
            /\ ppc' = "check"
            /\ UNCHANGED holder
       ELSE /\ holder' = "poller"
            /\ ppc' = "eval"
            /\ UNCHANGED should_trigger
    /\ UNCHANGED <<settings, poisoned, callerVars, wall, now, snap, payload,
                   emit_result, historyVars, windowVars>>

\* mutant: the guard outlives the evaluation and is still held during the sleep
PollerEvalKeepsGuard ==
    /\ ppc = "eval"
    /\ should_trigger' = ShouldTrigger(settings, now)
    /\ snap' = Some(settings)
    /\ ppc' = "check"
    /\ UNCHANGED <<settings, poisoned, holder, callerVars, wall, now, payload,
                   emit_result, historyVars, windowVars>>

\* the match arm Ok(settings) => { ... } is evaluated on the value behind the
\* guard, and the guard is dropped at the end of the block
PollerEval ==
    /\ ppc = "eval"
    /\ should_trigger' = ShouldTrigger(settings, now)
    /\ snap' = Some(settings)
    /\ holder' = "none"
    /\ ppc' = "check"
    /\ UNCHANGED <<settings, poisoned, callerVars, wall, now, payload,
                   emit_result, historyVars, windowVars>>

\* if should_trigger { build the payload } else the iteration ends
PollerCheck ==
    /\ ppc = "check"
    /\ IF should_trigger
       THEN /\ payload' = Some(Payload(now))
            /\ ppc' = "emit"
            /\ UNCHANGED <<now, should_trigger, snap>>
       ELSE /\ ppc' = "sleep"
            /\ now' = NoTime
            /\ should_trigger' = FALSE
            /\ snap' = None
            /\ UNCHANGED payload
    /\ UNCHANGED <<storeVars, callerVars, wall, emit_result, historyVars, windowVars>>

\* mutant: a schedule that has fired is switched off
PollerEmitOnce(r) ==
    /\ ppc = "emit"
    /\ emit_result' = r
    /\ fired' = fired \cup {now}
    /\ dupFired' = (dupFired \/ now \in fired)
    /\ ppc' = "emitted"
    /\ settings' = [settings EXCEPT !.enabled = FALSE]
    /\ UNCHANGED <<poisoned, holder, callerVars, wall, now, should_trigger, snap,
                   payload, clockBack, windowVars>>

\* app_handle.emit("schedule-trigger", payload) returns r
PollerEmit(r) ==
    /\ ppc = "emit"
    /\ emit_result' = r
    /\ fired' = fired \cup {now}
    /\ dupFired' = (dupFired \/ now \in fired)
    /\ ppc' = "emitted"
    /\ UNCHANGED <<storeVars, callerVars, wall, now, should_trigger, snap,
                   payload, clockBack, windowVars>>

\* mutant: an event whose delivery failed is emitted again
PollerLoopRetries ==
    /\ ppc = "emitted"
    /\ IF emit_result = "err"
       THEN /\ ppc' = "emit"
            /\ UNCHANGED <<now, should_trigger, snap, payload, emit_result>>
       ELSE /\ ppc' = "sleep"
            /\ now' = NoTime
            /\ should_trigger' = FALSE
            /\ snap' = None
            /\ payload' = None
            /\ emit_result' = "none"
    /\ UNCHANGED <<storeVars, callerVars, wall, historyVars, windowVars>>

\* mutant: a failed emit ends the thread
PollerLoopStopsOnError ==
    /\ ppc = "emitted"
    /\ ppc' = IF emit_result = "err" THEN "stopped" ELSE "sleep"
    /\ now' = NoTime
    /\ should_trigger' = FALSE
    /\ snap' = None
    /\ payload' = None
    /\ emit_result' = "none"
    /\ UNCHANGED <<storeVars, callerVars, wall, historyVars, windowVars>>

\* if let Err(e) = ... { log::error!(...) }, then the iteration ends
PollerLoop ==
    /\ ppc = "emitted"
    /\ ppc' = "sleep"
    /\ now' = NoTime
    /\ should_trigger' = FALSE
    /\ snap' = None
    /\ payload' = None
    /\ emit_result' = "none"
    /\ UNCHANGED <<storeVars, callerVars, wall, historyVars, windowVars>>

-----------------------------------------------------------------------------
(* The environment *)

\* the local wall clock is set back (a clock correction, or the end of
\* daylight saving time), here to the minute before one of the instants.  The
\* clock is read only at a wake-up, so a change at any other point of the cycle
\* is the same as one during the following sleep.
ClockSetBack(instants) ==
    /\ ppc = "sleep"
    /\ \E t \in instants :
        /\ t - 1 < wall
        /\ wall' = t - 1
    /\ clockBack' = TRUE
    /\ UNCHANGED <<storeVars, callerVars, pollerVars, fired, dupFired, windowVars>>

\* std::sync::Mutex: a thread that panicked while it held the guard leaves the
\* Mutex poisoned, and every later lock() returns Err
MutexPoison ==
    /\ holder = "none"
    /\ ~poisoned
    /\ poisoned' = TRUE
    /\ UNCHANGED <<settings, holder, callerVars, pollerVars, wall, historyVars, windowVars>>

EmitResults == {"ok", "err"}

PollerStep(instants) ==
    \/ PollerWake(instants)
    \/ PollerLock
    \/ PollerEval
    \/ PollerCheck
    \/ \E r \in EmitResults : PollerEmit(r)
    \/ PollerLoop

UpdateStep(callers, cfgs) ==
    \E c \in callers :
        \/ \E s \in cfgs : UpdateCall(c, s)
        \/ UpdateLock(c)
        \/ UpdateStoreEnabled(c)
        \/ UpdateStoreTime(c)
        \/ UpdateStoreDays(c)

-----------------------------------------------------------------------------
(* The main window and the tray menu *)

schedulerVars == <<storeVars, callerVars, pollerVars, wall, historyVars>>

\* the window system delivers WindowEvent::CloseRequested for the main window
CloseRequested ==
    /\ wpc = "idle"
    /\ window # "closed"
    /\ wpc' = "close_requested"
    /\ UNCHANGED <<is_quitting, window, last_close, schedulerVars>>

\* mutant: the close button always hides the window, whatever is_quitting says
OnWindowEventAlwaysHides ==
    /\ wpc = "close_requested"
    /\ wpc' = "idle"
    /\ last_close' = "prevented"
    /\ window' = "hidden"
    /\ UNCHANGED <<is_quitting, schedulerVars>>

\* on_window_event: api.prevent_close() and window.hide() unless is_quitting;
\* a close request that is not prevented closes the window
OnWindowEvent ==
    /\ wpc = "close_requested"
    /\ wpc' = "idle"
    /\ IF ~is_quitting
         THEN /\ last_close' = "prevented"
              /\ window' = "hidden"
         ELSE /\ last_close' = "allowed"
              /\ window' = "closed"
    /\ UNCHANGED <<is_quitting, schedulerVars>>

\* tray menu item "quit": is_quitting.store(true), then app.exit(0); the close
\* requests that arrive while the application exits are handled as any other
MenuQuit ==
    /\ is_quitting' = TRUE
    /\ UNCHANGED <<window, wpc, last_close, schedulerVars>>

\* tray menu item "show": show the main window if there is one
MenuShow ==
    /\ window' = IF window = "closed" THEN "closed" ELSE "shown"
    /\ UNCHANGED <<is_quitting, wpc, last_close, schedulerVars>>

\* a left click on the tray icon: show the main window if there is one
TrayLeftClick ==
    /\ window' = IF window = "closed" THEN "closed" ELSE "shown"
    /\ UNCHANGED <<is_quitting, wpc, last_close, schedulerVars>>

WindowStep ==
    \/ CloseRequested
    \/ OnWindowEvent
    \/ MenuQuit
    \/ MenuShow
    \/ TrayLeftClick

-----------------------------------------------------------------------------
(* The whole subsystem: one caller of the command, the scheduler thread, the *)
(* wall clock and the Mutex                                                  *)

CfgEvening ==
    [enabled |-> TRUE,
     time    |-> <<"1", "8", ":", "0", "0">>,
     days    |-> <<1, 2, 3, 4, 5>>]

CfgMorning ==
    [enabled |-> TRUE,
     time    |-> <<"0", "9", ":", "0", "5">>,
     days    |-> <<1, 2, 3, 4, 5>>]

\* a configuration no validation would accept: not a time, not a weekday
CfgInvalid ==
    [enabled |-> TRUE,
     time    |-> <<"a", "b", "c">>,
     days    |-> <<9>>]

SchedCallers == {"ui"}

SchedCfgs == {DefaultSettings, CfgEvening, CfgMorning, CfgInvalid}

\* Wednesday 09:05, 18:00 and 18:01, Saturday 18:00
SchedInstants == {At(3, 9, 5), At(3, 18, 0), At(3, 18, 1), At(6, 18, 0)}

Init == InitWith(SchedCallers, DefaultSettings)

Next ==
    \/ UpdateStep(SchedCallers, SchedCfgs)
    \/ PollerStep(SchedInstants)
    \/ ClockSetBack(SchedInstants)
    \/ MutexPoison

Spec == Init /\ [][Next]_vars

-----------------------------------------------------------------------------
(* Two concurrent callers of the command and the scheduler thread *)

CfgWeekend ==
    [enabled |-> TRUE,
     time    |-> <<"9", ":", "5">>,
     days    |-> <<0, 6>>]

CfgWednesday ==
    [enabled |-> TRUE,
     time    |-> <<"1", "8", ":", "0", "1">>,
     days    |-> <<3>>]

ConcCallers == {"ui1", "ui2"}

ConcCfgs == {CfgWeekend, CfgWednesday}

\* Wednesday 18:01, Saturday 09:05
ConcInstants == {At(3, 18, 1), At(6, 9, 5)}

InitConc == InitWith(ConcCallers, DefaultSettings)

NextConc ==
    \/ UpdateStep(ConcCallers, ConcCfgs)
    \/ PollerStep(ConcInstants)

SpecConc == InitConc /\ [][NextConc]_vars

-----------------------------------------------------------------------------
(* The scheduler's evaluation over every stored configuration: the store   *)
(* holds any of the settings an update can have put there, and the         *)
(* scheduler runs its cycles against it                                    *)

MaxTimeLen == 5

EvalAlphabet == {"0", "9", ":", "a", "+"}

EvalTimes == UNION {[1..k -> EvalAlphabet] : k \in 0..MaxTimeLen}

EvalDays == {<<1, 2, 3, 4, 5>>, <<0, 6>>}

EvalSettings == [enabled : BOOLEAN, time : EvalTimes, days : EvalDays]

\* Wednesday 00:09, 09:00 and 09:01, Saturday 09:00
EvalInstants == {At(3, 0, 9), At(3, 9, 0), At(3, 9, 1), At(6, 9, 0)}

InitEval == \E s \in EvalSettings : InitWith(SchedCallers, s)

NextEval ==
    \/ PollerStep(EvalInstants)
    \/ ClockSetBack(EvalInstants)

SpecEval == InitEval /\ [][NextEval]_vars

-----------------------------------------------------------------------------
(* The whole subsystem under its scheduling: a thread that can take a step  *)
(* takes it, and a thread that waits for the Mutex gets it if the Mutex is  *)
(* free again and again.  Nothing obliges a caller to call, the clock to    *)
(* reach another instant, or a fault to occur.                              *)

Fairness ==
    /\ SF_vars(PollerLock)
    /\ WF_vars(PollerEval)
    /\ WF_vars(PollerCheck)
    /\ WF_vars(\E r \in EmitResults : PollerEmit(r))
    /\ WF_vars(PollerLoop)
    /\ \A c \in SchedCallers :
        /\ SF_vars(UpdateLock(c))
        /\ WF_vars(UpdateStoreEnabled(c))
        /\ WF_vars(UpdateStoreTime(c))
        /\ WF_vars(UpdateStoreDays(c))

SpecLive == Init /\ [][Next]_vars /\ Fairness

-----------------------------------------------------------------------------
(* Times outside the clock's range, and a time written without padding *)

CfgHour25 ==
    [enabled |-> TRUE,
     time    |-> <<"2", "5", ":", "0", "0">>,
     days    |-> <<1, 2, 3, 4, 5>>]

CfgMinute60 ==
    [enabled |-> TRUE,
     time    |-> <<"1", "8", ":", "6", "0">>,
     days    |-> <<1, 2, 3, 4, 5>>]

CfgUnpadded ==
    [enabled |-> TRUE,
     time    |-> <<"9", ":", "5">>,
     days    |-> <<1, 2, 3, 4, 5>>]

RangeCfgs == {CfgHour25, CfgMinute60, CfgUnpadded, CfgMorning}

\* Wednesday 09:05 and 19:00, Thursday 01:00 and 09:05: two days at 09:05, and
\* the instants that 18:60 and 25:00 would denote if they were carried over
RangeInstants == {At(3, 9, 5), At(3, 19, 0), At(4, 1, 0), At(4, 9, 5)}

InitRange == InitWith(SchedCallers, DefaultSettings)

NextRange ==
    \/ UpdateStep(SchedCallers, RangeCfgs)
    \/ PollerStep(RangeInstants)

SpecRange == InitRange /\ [][NextRange]_vars

-----------------------------------------------------------------------------
(* The window, the tray and the scheduler thread behind them *)

InitWindow == InitWith(SchedCallers, DefaultSettings)

NextWindow ==
    \/ WindowStep
    \/ UpdateStep(SchedCallers, {CfgEvening})
    \/ PollerStep(SchedInstants)

SpecWindow == InitWindow /\ [][NextWindow]_vars

-----------------------------------------------------------------------------
(* Vocabulary of the properties: what a time text denotes, stated without  *)
(* the scheduler's own parsing                                              *)

DigitOf ==
    ("0" :> 0) @@ ("1" :> 1) @@ ("2" :> 2) @@ ("3" :> 3) @@ ("4" :> 4) @@
    ("5" :> 5) @@ ("6" :> 6) @@ ("7" :> 7) @@ ("8" :> 8) @@ ("9" :> 9)

\* a non-negative integer numeral: digits, optionally after one '+'
IsNumeral(p) ==
    \E k \in {0, 1} :
        /\ Len(p) > k
        /\ k = 1 => p[1] = "+"
        /\ \A i \in (k + 1)..Len(p) : p[i] \in DOMAIN DigitOf

RECURSIVE NumeralSum(_, _)
NumeralSum(p, acc) ==
    IF p = <<>> THEN acc
    ELSE NumeralSum(Tail(p), IF p[1] = "+" THEN acc ELSE acc * 10 + DigitOf[p[1]])

\* the <<hour, minute>> pairs a time text denotes: none when it is malformed,
\* one when it is two numerals around a single ':'
TimeOf(s) ==
    {<<NumeralSum(SubSeq(s, 1, i - 1), 0), NumeralSum(SubSeq(s, i + 1, Len(s)), 0)>> :
        i \in {j \in 1..Len(s) : /\ s[j] = ":"
                                 /\ IsNumeral(SubSeq(s, 1, j - 1))
                                 /\ IsNumeral(SubSeq(s, j + 1, Len(s)))}}

Malformed(s) == TimeOf(s) = {}

DaySet(cfg) == {cfg.days[i] : i \in DOMAIN cfg.days}

TimeMatches(cfg, t) == <<current_hour(t), current_minute(t)>> \in TimeOf(cfg.time)

\* enabled, today is an active day, and the hour and minute are the configured ones
ScheduleMatches(cfg, t) ==
    /\ cfg.enabled
    /\ current_day(t) \in DaySet(cfg)
    /\ TimeMatches(cfg, t)

\* the cycle has an event: the payload is built, or emit has been called
Emitting == ppc \in {"emit", "emitted"}

\* a two-digit hour, ':', a two-digit minute
HHMM(h, m) ==
    <<DigitChars[(h \div 10) + 1], DigitChars[(h % 10) + 1], ":",
      DigitChars[(m \div 10) + 1], DigitChars[(m % 10) + 1]>>

IsHHMM(s) == \E h \in 0..23, m \in 0..59 : s = HHMM(h, m)

-----------------------------------------------------------------------------
(* Properties *)

\* C1: in every cycle the scheduler goes on to emit an event if and only if
\* the settings it read are enabled, the captured weekday is one of their days
\* and the captured hour and minute are the ones their time text denotes; an
\* event is emitted from nowhere else.
C1_EmitIffScheduleMatches ==
    [][/\ (ppc = "check" /\ ppc' # "check") =>
            ((ppc' = "emit") <=> (snap # None /\ ScheduleMatches(snap[1], now)))
       /\ (ppc' = "emit" /\ ppc # "emit") => (ppc = "check" /\ payload' # None)
       /\ (fired' # fired \/ (emit_result' # emit_result /\ emit_result' \in EmitResults))
            => ppc = "emit"]_vars

C1_Witness ==
    /\ ppc = "emitted"
    /\ snap # None
    /\ ScheduleMatches(snap[1], now)

\* C2: while the store holds settings with enabled = false no event is ever
\* emitted, and a cycle that read such settings decides not to trigger,
\* whatever the clock, the time text and the days are.
C2_DisabledNeverFires ==
    /\ ~settings.enabled => (fired = {} /\ ~Emitting /\ payload = None)
    /\ (snap # None /\ ~snap[1].enabled) => (~should_trigger /\ ~Emitting)

C2_Witness ==
    /\ ppc = "check"
    /\ snap # None
    /\ ~snap[1].enabled
    /\ current_day(now) \in DaySet(snap[1])
    /\ TimeMatches(snap[1], now)
    /\ ~should_trigger

\* C3: a cycle whose captured weekday is not among the days of the settings it
\* read emits nothing, even when they are enabled and the time matches.
C3_InactiveDayNeverFires ==
    (snap # None /\ current_day(now) \notin DaySet(snap[1])) =>
        (~should_trigger /\ ~Emitting)

C3_Witness ==
    /\ ppc = "check"
    /\ snap # None
    /\ snap[1].enabled
    /\ TimeMatches(snap[1], now)
    /\ current_day(now) \notin DaySet(snap[1])
    /\ ~should_trigger

\* C4: for enabled settings whose time is the HH:MM text T and whose days
\* contain today, the evaluation triggers exactly when the captured time is T
\* (so not one minute later), and the event's time label is the text T.
C4_FiresAtConfiguredTimeWithItsLabel ==
    /\ (Emitting /\ snap # None /\ IsHHMM(snap[1].time)) =>
            (payload # None /\ payload[1].time = snap[1].time)
    /\ (/\ ppc = "check"
        /\ snap # None
        /\ snap[1].enabled
        /\ current_day(now) \in DaySet(snap[1])
        /\ IsHHMM(snap[1].time)) =>
            (should_trigger <=>
                snap[1].time = HHMM(current_hour(now), current_minute(now)))

\* C5: no calendar minute gets a second event.
C5_AtMostOncePerMinute == ~dupFired

\* C5, amended: as long as the wall clock has never been set back, so that
\* every captured time is at least a sleep later than the one before, no
\* calendar minute gets a second event.
C5_AtMostOncePerMinuteWhileClockForward == dupFired => clockBack

\* Wednesday 18:00 has had its event and the next wake-up, a minute later, came
C5_Witness ==
    /\ ~clockBack
    /\ ~dupFired
    /\ At(3, 18, 0) \in fired
    /\ now = At(3, 18, 1)

\* C6: a scheduler read sees exactly the settings of the last call that
\* returned Ok before it (the default ones when there is none).
C6_ReadSeesLastCommitted ==
    [][(ppc = "eval" /\ ppc' = "check") => snap' = Some(committed)]_vars

C6_Witness ==
    /\ ppc = "check"
    /\ committed # DefaultSettings
    /\ snap = Some(committed)
    /\ \E c \in DOMAIN ures : ures[c] = "ok" /\ uarg[c] = Some(committed)

ConcWhole == {DefaultSettings} \cup ConcCfgs

\* C7: whenever no call is in the middle of its store, the stored settings are
\* as a whole the default ones or the argument of one call, and so is every
\* snapshot the scheduler evaluates.
C7_NoHybridConfiguration ==
    /\ holder \notin ConcCallers => settings \in ConcWhole
    /\ snap # None => snap[1] \in ConcWhole

\* the scheduler has read while one call is storing and the other one waits
C7_Witness ==
    /\ ppc = "check"
    /\ snap = Some(CfgWeekend)
    /\ upc["ui1"] = "lock"
    /\ upc["ui2"] = "store_time"
    /\ uarg["ui2"] = Some(CfgWednesday)

\* C8: settings whose time text is malformed never match: the cycle that read
\* them does not trigger, emits nothing, and its next step is the next sleep.
C8_MalformedTimeNeverMatches ==
    /\ [](snap # None /\ Malformed(snap[1].time) => ~should_trigger /\ ~Emitting)
    /\ [][(ppc = "check" /\ ppc' # "check" /\ snap # None /\ Malformed(snap[1].time))
              => ppc' = "sleep"]_vars

\* enabled, on an active day, a text that splits in two but does not parse
C8_Witness ==
    /\ ppc = "check"
    /\ snap # None
    /\ snap[1].enabled
    /\ current_day(now) \in DaySet(snap[1])
    /\ Malformed(snap[1].time)
    /\ Len(Split(snap[1].time)) = 2
    /\ ~should_trigger

\* C9: a call returns Ok for every input and leaves the store equal to its
\* argument, unless the Mutex is poisoned: then, and only then, it returns Err
\* and leaves the store as it was.
C9_UpdateAlwaysOkUnlessPoisoned ==
    [][\A c \in DOMAIN upc :
        (upc[c] # "idle" /\ upc'[c] = "idle") =>
            IF poisoned
            THEN ures'[c] = "err" /\ settings' = settings
            ELSE ures'[c] = "ok" /\ settings' = uarg[c][1]]_vars

\* the invalid configuration was accepted and is what the store holds
C9_Witness ==
    /\ ures["ui"] = "ok"
    /\ uarg["ui"] = Some(CfgInvalid)
    /\ settings = CfgInvalid

\* C10: the time label of an event is the two-digit hour, ':', the two-digit
\* minute of the captured time.
C10_TimeLabelIsHHMM ==
    payload # None =>
        payload[1].time = HHMM(current_hour(now), current_minute(now))

\* the data-model invariant of a configuration: its time denotes an hour in
\* 0..23 and a minute in 0..59, and its days are weekdays 0..6
DataModelInv(cfg) ==
    /\ \E hm \in TimeOf(cfg.time) : hm[1] \in 0..23 /\ hm[2] \in 0..59
    /\ DaySet(cfg) \subseteq 0..6

\* C11 as stated: whenever no update is in the middle of its store, the stored
\* configuration has a time with an hour in 0..23 and a minute in 0..59 and
\* days within 0..6, whatever update calls have been made.
C11_StoredConfigIsAlwaysValid ==
    holder \notin SchedCallers => DataModelInv(settings)

\* C11: the update stores its argument unchecked, so the stored configuration
\* satisfies the data-model invariant exactly when the last configuration an
\* update committed (the default before the first update) satisfies it:
\* outside an update's store the two are the same value.
C11_StoredConfigValidIffArgumentValid ==
    holder \notin SchedCallers =>
        /\ settings = committed
        /\ DataModelInv(settings) <=> DataModelInv(committed)
        /\ committed \in SchedCfgs

C11_Witness ==
    /\ holder = "none"
    /\ ures["ui"] = "ok"
    /\ settings = CfgMorning
    /\ DataModelInv(settings)
    /\ fired # {}

\* C12: the scheduler thread holds the Mutex exactly while it evaluates the
\* match, so never while it sleeps, emits or builds the payload; and an update
\* call that waits for the Mutex always gets past it and returns, so the
\* scheduler thread and the command never block each other for good.
C12_LockHeldOnlyDuringEvaluation ==
    /\ [](holder = "poller" <=> ppc = "eval")
    /\ \A c \in SchedCallers :
        (upc[c] = "lock") ~> (upc[c] = "idle" /\ ures[c] \in {"ok", "err"})

C12_Witness ==
    /\ upc["ui"] = "lock"
    /\ holder = "poller"
    /\ ppc = "eval"

\* C13: a delivery that fails changes nothing but the result of emit: the
\* emit step leaves the store alone whatever its result, and the step after it
\* goes to the next sleep with the cycle's locals cleared, the store and the
\* record of fired minutes untouched, whether the result was Ok or Err; the
\* failed event is not emitted a second time.
C13_FailedEmitChangesNothing ==
    [][/\ (ppc = "emit" /\ ppc' # ppc) =>
            /\ ppc' = "emitted"
            /\ UNCHANGED <<storeVars, callerVars, wall, now, payload>>
       /\ (ppc = "emitted" /\ ppc' # ppc) =>
            /\ ppc' = "sleep"
            /\ now' = NoTime /\ snap' = None /\ payload' = None
            /\ should_trigger' = FALSE /\ emit_result' = "none"
            /\ UNCHANGED <<storeVars, callerVars, wall, historyVars>>
       /\ (ppc = "emitted" /\ emit_result = "err") => fired' = fired]_vars

C13_Witness ==
    /\ ppc = "emitted"
    /\ emit_result = "err"
    /\ settings = CfgEvening
    /\ now = At(3, 18, 0)

\* the positions of the scheduler thread in its loop
PollerPositions == {"sleep", "lock", "eval", "check", "emit", "emitted"}

\* C14: the one scheduler thread is in its loop for ever: it starts at the
\* sleep, is always at one of the loop's positions, and from each of them
\* (the lock, the evaluation, a non-match, a malformed time, the emit, a failed
\* emit) it comes back to the sleep.
C14_PollerAlwaysReturnsToSleep ==
    /\ ppc = "sleep"
    /\ [](ppc \in PollerPositions)
    /\ \A p \in PollerPositions : (ppc = p) ~> (ppc = "sleep")

C14_Witness ==
    /\ ppc = "check"
    /\ snap # None
    /\ Malformed(snap[1].time)
    /\ fired # {}
    /\ ~should_trigger

\* nothing has been emitted and the cycle in progress is not going to emit
Quiet ==
    /\ fired = {}
    /\ ~Emitting
    /\ ~should_trigger
    /\ payload = None

\* C15: the store starts as enabled = false, "18:00", days 1..5, and as long
\* as no update with enabled = true has committed no cycle emits an event:
\* the scheduler is quiet at the start, and stays quiet over every step that
\* leaves the committed configuration disabled.
C15_NoEventBeforeFirstEnable ==
    /\ settings = [enabled |-> FALSE,
                   time    |-> <<"1", "8", ":", "0", "0">>,
                   days    |-> <<1, 2, 3, 4, 5>>]
    /\ committed = settings
    /\ Quiet
    /\ [][(Quiet /\ ~committed.enabled /\ ~committed'.enabled) => Quiet']_vars

C15_Witness ==
    /\ ppc = "check"
    /\ now = At(3, 18, 0)
    /\ snap = Some(DefaultSettings)
    /\ committed = DefaultSettings
    /\ ures["ui"] = "none"
    /\ Quiet

\* C16: the scheduler thread never writes the store: each of its steps leaves
\* enabled, time and days as they are, and the store changes only in a step of
\* an update call that holds the Mutex.  So a schedule that has fired is still
\* enabled, and a later cycle that reads matching settings fires again.
C16_PollerLeavesStoreUnchanged ==
    [][/\ ppc' # ppc => (settings' = settings /\ committed' = committed)
       /\ settings' # settings =>
            \E c \in SchedCallers :
                /\ holder = c
                /\ upc[c] \in {"store_enabled", "store_time", "store_days"}
                /\ upc'[c] # upc[c]
       /\ (fired' # fired /\ snap # None) => (snap[1].enabled /\ settings' = settings)
       /\ (ppc = "check" /\ ppc' # ppc /\ fired # {} /\ snap # None
           /\ ScheduleMatches(snap[1], now)) => ppc' = "emit"]_vars

C16_Witness ==
    /\ ppc = "emitted"
    /\ now = At(4, 9, 5)
    /\ At(3, 9, 5) \in fired
    /\ settings = CfgMorning
    /\ snap = Some(CfgMorning)

\* C17: is_quitting starts false, only the tray's quit item makes it true and
\* nothing makes it false again; a close request handled while it is false is
\* prevented and the window hidden, and one handled while it is true is left
\* to close the window.  So a close goes through only after quit was chosen,
\* and from then on none is prevented.
C17_CloseHidesUnlessQuitting ==
    /\ ~is_quitting
    /\ last_close = "none"
    /\ [][/\ is_quitting => is_quitting'
          /\ is_quitting' # is_quitting => MenuQuit
          /\ (wpc = "close_requested" /\ wpc' = "idle") =>
                IF is_quitting
                THEN last_close' = "allowed" /\ window' = "closed"
                ELSE last_close' = "prevented" /\ window' = "hidden"
          /\ (last_close' # last_close \/ (window' = "closed" /\ window # "closed"))
                => (wpc = "close_requested" /\ wpc' = "idle")]_vars
    /\ [](window = "closed" => (is_quitting /\ last_close = "allowed"))

C17_Witness ==
    /\ is_quitting
    /\ window = "closed"
    /\ last_close = "allowed"
    /\ wpc = "idle"
    /\ fired = {}
    /\ ppc = "check"

OutOfRange(s) == \E hm \in TimeOf(s) : hm[1] > 23 \/ hm[2] > 59

\* C19: the hour and the minute of the time text are compared as numbers.  An
\* update with a time outside the clock's range ("25:00", "18:60") returns Ok
\* and is stored, and no cycle that reads it triggers, at any instant; a time
\* without padding ("9:5") triggers exactly when "09:05" does: enabled, on an
\* active day, at hour 9 and minute 5.
C19_TimeComparedNumerically ==
    /\ \A c \in SchedCallers :
        (upc[c] = "idle" /\ ures[c] # "none") =>
            (ures[c] = "ok" /\ settings = uarg[c][1])
    /\ (snap # None /\ OutOfRange(snap[1].time)) => (~should_trigger /\ ~Emitting)
    /\ (snap # None /\ snap[1].time \in {CfgUnpadded.time, CfgMorning.time}) =>
            (should_trigger <=>
                /\ snap[1].enabled
                /\ current_day(now) \in DaySet(snap[1])
                /\ current_hour(now) = 9
                /\ current_minute(now) = 5)

C19_Witness ==
    /\ ppc = "check"
    /\ now = At(4, 1, 0)
    /\ snap = Some(CfgHour25)
    /\ OutOfRange(snap[1].time)
    /\ ures["ui"] = "ok"
    /\ ~should_trigger
    /\ At(3, 9, 5) \in fired

====
